---- MODULE Spec2Model ----
(***************************************************************************)
(* Therapy-session dashboard: the REST handlers over the sessions table    *)
(* (GET/POST /api/sessions, PATCH /api/sessions/[id]) and the client's     *)
(* reconciliation logic (Home, SessionTable, CreateSessionModal).          *)
(***************************************************************************)
EXTENDS Integers, Sequences, FiniteSets, Bags, TLC

(***************************************************************************)
(* Bounds of the model.                                                    *)
(***************************************************************************)
\* rows the sessions table may hold (caps inserts)
MaxSessions == 3
\* request handlers the server runs concurrently
MaxHandlers == 2
\* client requests of one kind in flight at once
MaxInFlight == 2
\* pending auto-dismiss timers of the error banner
MaxTimers == 1

Null == "null"

(***************************************************************************)
(* JavaScript values crossing the HTTP boundary.                           *)
(***************************************************************************)
Undefined == [t |-> "undefined", v |-> 0, s |-> ""]
Num(n) == [t |-> "number", v |-> n, s |-> ""]
Str(x) == [t |-> "string", v |-> 0, s |-> x]
\* a timestamp string: its written form and the instant it denotes
\*   "Z"      2030-01-01T10:00:00.000Z   (what Date.toISOString() writes)
\*   "offset" 2030-01-01T12:00:00+02:00
\*   "local"  2030-01-01T10:00:00
DateStr(form, instant) == [t |-> "string", v |-> instant, s |-> form]

(***************************************************************************)
(* Persistent store: lib/schema.ts tables and the seed rows.               *)
(***************************************************************************)
therapistsTable == { [id |-> 1, name |-> "Anna SLP"] }
patientsTable == { [id |-> 1, name |-> "Ariel Underwood"], [id |-> 2, name |-> "Nemo Fisher"] }
SeedSessions ==
  << [id |-> 1, therapist_id |-> 1, patient_id |-> 1, date |-> 1, status |-> "Scheduled"],
     [id |-> 2, therapist_id |-> 1, patient_id |-> 2, date |-> 3, status |-> "Scheduled"] >>

VARIABLES
  sessionsTable,     \* rows of the sessions table, in insertion order
  idSeq,             \* next value of the serial id sequence
  handlers,          \* server: the request each handler slot is serving
  nodeEnv            \* server: process.env.NODE_ENV

VARIABLES
  sessions,          \* Home: local list of SessionWithDetails
  loading,           \* Home: list fetch in progress
  error,             \* Home: error text or Null
  errorTimers,       \* Home: pending setTimeout(() => setError(null))
  successMessage,    \* Home: success banner text or Null
  showCreateModal,   \* Home: modal open
  updatingSessionId, \* SessionTable: id shown as pending, or 0
  modal,             \* CreateSessionModal: its useState cells
  net                \* client requests in flight (bag)

VARIABLES
  searchTerm,        \* Home: text of the search box
  statusFilter,      \* Home: "All", "Scheduled" or "Completed"
  sortBy,            \* Home: "date", "therapist" or "patient"
  sortOrder,         \* Home: "asc" or "desc"
  currentPage,       \* Home: page of the filtered list on display
  itemsPerPage       \* Home: page size

serverVars == <<sessionsTable, idSeq, handlers, nodeEnv>>
viewVars == <<searchTerm, statusFilter, sortBy, sortOrder, currentPage, itemsPerPage>>
clientVars == <<sessions, loading, error, errorTimers, successMessage,
                showCreateModal, updatingSessionId, modal, net, viewVars>>
vars == <<sessionsTable, idSeq, handlers, nodeEnv, sessions, loading, error, errorTimers,
          successMessage, showCreateModal, updatingSessionId, modal, net, viewVars>>

(***************************************************************************)
(* parseInt(string): optional sign, then the longest prefix of decimal     *)
(* digits; NaN when there is none.  Strings are sequences of characters.   *)
(***************************************************************************)
DigitChars == <<"0", "1", "2", "3", "4", "5", "6", "7", "8", "9">>
IsDigit(c) == \E i \in 1..10 : DigitChars[i] = c
DigitVal(c) == (CHOOSE i \in 1..10 : DigitChars[i] = c) - 1

RECURSIVE DigitsValue(_, _)
DigitsValue(s, acc) ==
  IF s = <<>> \/ ~IsDigit(Head(s)) THEN acc
  ELSE DigitsValue(Tail(s), 10 * acc + DigitVal(Head(s)))

parseInt(s) ==
  LET signed == s # <<>> /\ Head(s) \in {"-", "+"}
      rest == IF signed THEN Tail(s) ELSE s
      mag == DigitsValue(rest, 0)
  IN IF rest = <<>> \/ ~IsDigit(Head(rest))
       THEN [nan |-> TRUE, value |-> 0]
       ELSE [nan |-> FALSE, value |-> IF signed /\ Head(s) = "-" THEN 0 - mag ELSE mag]

\* String(n) for the ids the client puts in the PATCH url
RECURSIVE NumToStr(_)
NumToStr(n) ==
  IF n < 10 THEN <<DigitChars[n + 1]>>
  ELSE NumToStr(n \div 10) \o <<DigitChars[(n % 10) + 1]>>

(***************************************************************************)
(* HTTP responses.                                                         *)
(***************************************************************************)
Response(code, err, msg, det, rows) ==
  [status |-> code, error |-> err, message |-> msg, details |-> det, rows |-> rows]
NoResponse == Response(0, Null, Null, <<>>, <<>>)

\* what String(error) gives for a thrown error
SyntaxErrorText == "SyntaxError: Unexpected end of JSON input"
DbErrorText == "Error: connect ECONNREFUSED"

\* a catch-all branch that always puts String(error) in the body
ServerErrorLeaks(errorText, thrown) ==
  Response(500, errorText, thrown, <<>>, <<>>)

\* the catch-all branch of a handler: 500, the internal text only in development
ServerError(errorText, thrown) ==
  Response(500, errorText,
           IF nodeEnv = "development" THEN thrown ELSE "Internal server error",
           <<>>, <<>>)

\* request body: json = "malformed" when request.json() throws, "nonobject"
\* when it yields a value that is no object (null, an array, a number)
Body(json, tid, pid, date, status) ==
  [json |-> json, therapist_id |-> tid, patient_id |-> pid, date |-> date, status |-> status]
NoBody == Body("none", Undefined, Undefined, Undefined, Undefined)

IdleHandler ==
  [method |-> "idle", pc |-> "idle", idStr |-> <<>>, body |-> NoBody,
   sessionId |-> 0, existing |-> <<>>, newId |-> 0, response |-> NoResponse,
   reads |-> 0, writes |-> 0]

(***************************************************************************)
(* PATCH /api/sessions/[id]                                                *)
(***************************************************************************)
StatusValues == {"Scheduled", "Completed"}

\* a schema that takes any string for a status
updateSessionSchemaAnyString(body) ==
  IF body.status.t = "string" THEN <<>>
  ELSE << [field |-> "status", message |-> "Required"] >>

\* updateSessionSchema.parse(body): the issues zod raises
updateSessionSchema(body) ==
  IF body.json = "nonobject"
    THEN << [field |-> "", message |-> "Expected object"] >>
  ELSE IF body.status.t = "string" /\ body.status.s \in StatusValues THEN <<>>
  ELSE << [field |-> "status",
           message |-> IF body.status.t = "undefined" THEN "Required"
                       ELSE "Invalid enum value"] >>

\* the handler up to its first query: id parsing, request.json(), schema
PatchValidate(idStr, body) ==
  LET sessionId == parseInt(idStr)
      issues == updateSessionSchema(body)
  IN IF sessionId.nan \/ sessionId.value <= 0
       THEN Response(400, "Invalid session ID format", Null, <<>>, <<>>)
     ELSE IF body.json = "malformed"
       THEN ServerError("Failed to update session", SyntaxErrorText)
     ELSE IF issues # <<>>
       THEN Response(400, "Validation failed", Null, issues, <<>>)
     ELSE NoResponse

\* the select without its where clause
PatchSelectNoWhere(table, sessionId) ==
  IF table = <<>> THEN <<>>
  ELSE << [id |-> table[1].id, status |-> table[1].status] >>

\* db.select({id, status}).from(sessions).where(eq(sessions.id, sessionId)).limit(1)
PatchSelect(table, sessionId) ==
  LET found == SelectSeq(table, LAMBDA r : r.id = sessionId)
  IN IF found = <<>> THEN <<>>
     ELSE << [id |-> found[1].id, status |-> found[1].status] >>

\* the exits after the select without the already-has-the-status one
PatchAfterSelectAlwaysUpdates(existingSession, status) ==
  IF Len(existingSession) = 0
    THEN Response(404, "Session not found", Null, <<>>, <<>>)
  ELSE NoResponse

\* the not-found and already-has-the-status exits after the select
PatchAfterSelect(existingSession, status) ==
  IF Len(existingSession) = 0
    THEN Response(404, "Session not found", Null, <<>>, <<>>)
  ELSE IF existingSession[1].status = status
    THEN Response(200, Null, "Session already has the requested status", <<>>,
                  existingSession)
  ELSE NoResponse

\* the update without its where clause
PatchUpdateNoWhere(table, sessionId, status) ==
  LET updated == [i \in DOMAIN table |-> [table[i] EXCEPT !.status = status]]
  IN [table |-> updated, returning |-> updated]

\* an update that also requires the stored status to differ from the new one
PatchUpdateOnlyIfChanged(table, sessionId, status) ==
  LET hit(r) == r.id = sessionId /\ r.status # status
  IN [table |-> [i \in DOMAIN table |->
                   IF hit(table[i]) THEN [table[i] EXCEPT !.status = status]
                   ELSE table[i]],
      returning |-> [i \in DOMAIN SelectSeq(table, hit) |->
                       [SelectSeq(table, hit)[i] EXCEPT !.status = status]]]

\* db.update(sessions).set({status}).where(eq(sessions.id, sessionId)).returning()
PatchUpdate(table, sessionId, status) ==
  LET updated == [i \in DOMAIN table |->
                    IF table[i].id = sessionId
                    THEN [table[i] EXCEPT !.status = status] ELSE table[i]]
  IN [table |-> updated,
      returning |-> SelectSeq(updated, LAMBDA r : r.id = sessionId)]

PatchAfterUpdate(returning) ==
  IF returning = <<>>
    THEN Response(404, "Session not found", Null, <<>>, <<>>)
  ELSE Response(200, Null, "Session updated successfully", <<>>, <<returning[1]>>)

\* the whole handler run without interleaving: [table, response, writes]
PATCH(table, idStr, body) ==
  LET early == PatchValidate(idStr, body)
      sessionId == parseInt(idStr).value
      existingSession == PatchSelect(table, sessionId)
      afterSelect == PatchAfterSelect(existingSession, body.status.s)
      upd == PatchUpdate(table, sessionId, body.status.s)
  IN IF early.status # 0 THEN [table |-> table, response |-> early, writes |-> 0]
     ELSE IF afterSelect.status # 0
       THEN [table |-> table, response |-> afterSelect, writes |-> 0]
     ELSE [table |-> upd.table, response |-> PatchAfterUpdate(upd.returning),
           writes |-> 1]

(***************************************************************************)
(* POST /api/sessions and GET /api/sessions                                *)
(***************************************************************************)
\* z.number().int().positive()
PositiveIntIssues(field, val) ==
  IF val.t = "undefined" THEN << [field |-> field, message |-> "Required"] >>
  ELSE IF val.t # "number" THEN << [field |-> field, message |-> "Expected number"] >>
  ELSE IF val.v <= 0
    THEN << [field |-> field, message |-> "Number must be greater than 0"] >>
  ELSE <<>>

\* z.string().datetime(): only the UTC "Z" form passes (no offset, no local time)
DatetimeIssues(field, val) ==
  IF val.t = "undefined" THEN << [field |-> field, message |-> "Required"] >>
  ELSE IF val.t # "string" THEN << [field |-> field, message |-> "Expected string"] >>
  ELSE IF val.s # "Z" THEN << [field |-> field, message |-> "Invalid datetime"] >>
  ELSE <<>>

\* a schema that stops at the first failing field
createSessionSchemaFirstIssue(body) ==
  LET all == PositiveIntIssues("therapist_id", body.therapist_id)
               \o PositiveIntIssues("patient_id", body.patient_id)
               \o DatetimeIssues("date", body.date)
  IN IF all = <<>> THEN <<>> ELSE << all[1] >>

\* createSessionSchema.parse(body): one issue list over all three fields
createSessionSchema(body) ==
  IF body.json = "nonobject"
    THEN << [field |-> "", message |-> "Expected object"] >>
  ELSE PositiveIntIssues("therapist_id", body.therapist_id)
         \o PositiveIntIssues("patient_id", body.patient_id)
         \o DatetimeIssues("date", body.date)

PostValidate(body) ==
  LET issues == createSessionSchema(body)
  IN IF body.json = "malformed"
       THEN ServerError("Failed to create session", SyntaxErrorText)
     ELSE IF issues # <<>>
       THEN Response(400, "Validation failed", Null, issues, <<>>)
     ELSE NoResponse

\* an insert path that never looks the therapist and the patient up
PostExistsUnchecked(body) == NoResponse

\* the two existence queries and their exits
PostExists(body) ==
  LET therapistExists == {t \in therapistsTable : t.id = body.therapist_id.v}
      patientExists == {p \in patientsTable : p.id = body.patient_id.v}
  IN IF therapistExists = {}
       THEN Response(400, "Invalid therapist ID", Null, <<>>, <<>>)
     ELSE IF patientExists = {}
       THEN Response(400, "Invalid patient ID", Null, <<>>, <<>>)
     ELSE NoResponse

\* db.insert(sessions).values({..., status: 'Scheduled'}).returning()
PostInsert(table, nextId, body) ==
  LET newSession == [id |-> nextId,
                     therapist_id |-> body.therapist_id.v,
                     patient_id |-> body.patient_id.v,
                     date |-> body.date.v,
                     status |-> "Scheduled"]
  IN [table |-> Append(table, newSession), newSession |-> newSession]

\* a sessions row left-joined with its therapist and patient
NameOf(rows, id) ==
  IF \E r \in rows : r.id = id THEN (CHOOSE r \in rows : r.id = id).name ELSE Null

WithDetails(row) ==
  [id |-> row.id, date |-> row.date, status |-> row.status,
   therapist_id |-> row.therapist_id, patient_id |-> row.patient_id,
   therapist_name |-> NameOf(therapistsTable, row.therapist_id),
   patient_name |-> NameOf(patientsTable, row.patient_id)]

\* the join select of the new row, and the 201
PostFetch(table, newId) ==
  LET found == SelectSeq(table, LAMBDA r : r.id = newId)
  IN IF found = <<>> THEN Response(201, Null, Null, <<>>, <<>>)
     ELSE Response(201, Null, Null, <<>>, <<WithDetails(found[1])>>)

\* the whole handler run without interleaving
POST(table, nextId, body) ==
  LET early == PostValidate(body)
      missing == PostExists(body)
      ins == PostInsert(table, nextId, body)
  IN IF early.status # 0
       THEN [table |-> table, idSeq |-> nextId, response |-> early, writes |-> 0]
     ELSE IF missing.status # 0
       THEN [table |-> table, idSeq |-> nextId, response |-> missing, writes |-> 0]
     ELSE [table |-> ins.table, idSeq |-> nextId + 1,
           response |-> PostFetch(ins.table, ins.newSession.id), writes |-> 1]

\* a select without its orderBy: the rows as they were inserted
ListSessionsUnordered(table) ==
  {[i \in 1..Len(table) |-> WithDetails(table[i])]}

\* the orders in which orderBy(sessions.date) may return the rows at the
\* positions in rest: ascending date, rows of equal date in any order
RECURSIVE DateOrders(_, _)
DateOrders(table, rest) ==
  IF rest = {} THEN {<<>>}
  ELSE LET earliest == {i \in rest : \A j \in rest : table[i].date <= table[j].date}
       IN UNION {{<<i>> \o o : o \in DateOrders(table, rest \ {i})} : i \in earliest}

\* GET: every row joined, ordered by date; rows of equal date in any order
ListSessions(table) ==
  {[k \in 1..Len(table) |-> WithDetails(table[p[k]])] : p \in DateOrders(table, DOMAIN table)}

(***************************************************************************)
(* Server: one action per await-delimited step of a handler.               *)
(***************************************************************************)
Serving(h, method, pc) == handlers[h].method = method /\ handlers[h].pc = pc

Finish(slot, response) ==
  [slot EXCEPT !.response = response, !.pc = "done"]

\* a handler that looks the session up before it parses the body
PatchBeginSelectsFirst(h, idStr, body) ==
  /\ handlers[h].method = "idle"
  /\ LET early == PatchValidate(idStr, body)
         sessionId == parseInt(idStr)
         looked == ~(sessionId.nan \/ sessionId.value <= 0)
         slot == [IdleHandler EXCEPT !.method = "PATCH", !.idStr = idStr,
                                     !.body = body, !.pc = "select",
                                     !.sessionId = sessionId.value,
                                     !.reads = IF looked THEN 1 ELSE 0]
     IN handlers' = [handlers EXCEPT ![h] =
                       IF early.status # 0 THEN Finish(slot, early) ELSE slot]
  /\ UNCHANGED <<sessionsTable, idSeq>>
  /\ UNCHANGED <<nodeEnv, clientVars>>

PatchBegin(h, idStr, body) ==
  /\ handlers[h].method = "idle"
  /\ LET early == PatchValidate(idStr, body)
         slot == [IdleHandler EXCEPT !.method = "PATCH", !.idStr = idStr,
                                     !.body = body, !.pc = "select",
                                     !.sessionId = parseInt(idStr).value]
     IN handlers' = [handlers EXCEPT ![h] =
                       IF early.status # 0 THEN Finish(slot, early) ELSE slot]
  /\ UNCHANGED <<sessionsTable, idSeq>>
  /\ UNCHANGED <<nodeEnv, clientVars>>

PatchSelectStep(h) ==
  /\ Serving(h, "PATCH", "select")
  /\ LET existingSession == PatchSelect(sessionsTable, handlers[h].sessionId)
         exit == PatchAfterSelect(existingSession, handlers[h].body.status.s)
         slot == [handlers[h] EXCEPT !.existing = existingSession,
                                     !.reads = @ + 1, !.pc = "update"]
     IN handlers' = [handlers EXCEPT ![h] =
                       IF exit.status # 0 THEN Finish(slot, exit) ELSE slot]
  /\ UNCHANGED <<sessionsTable, idSeq>>
  /\ UNCHANGED <<nodeEnv, clientVars>>

PatchUpdateStep(h) ==
  /\ Serving(h, "PATCH", "update")
  /\ LET upd == PatchUpdate(sessionsTable, handlers[h].sessionId,
                            handlers[h].body.status.s)
     IN /\ sessionsTable' = upd.table
        /\ handlers' = [handlers EXCEPT ![h] =
                          Finish([handlers[h] EXCEPT !.writes = @ + 1],
                                 PatchAfterUpdate(upd.returning))]
  /\ UNCHANGED idSeq
  /\ UNCHANGED <<nodeEnv, clientVars>>

\* inserts still to come from handlers past validation
PendingInserts ==
  Cardinality({h \in DOMAIN handlers :
                 handlers[h].method = "POST" /\ handlers[h].pc \in {"exists", "insert"}})

PostBegin(h, body) ==
  /\ handlers[h].method = "idle"
  /\ Len(sessionsTable) + PendingInserts < MaxSessions
  /\ LET early == PostValidate(body)
         slot == [IdleHandler EXCEPT !.method = "POST", !.body = body, !.pc = "exists"]
     IN handlers' = [handlers EXCEPT ![h] =
                       IF early.status # 0 THEN Finish(slot, early) ELSE slot]
  /\ UNCHANGED <<sessionsTable, idSeq>>
  /\ UNCHANGED <<nodeEnv, clientVars>>

PostExistsStep(h) ==
  /\ Serving(h, "POST", "exists")
  /\ LET exit == PostExists(handlers[h].body)
         slot == [handlers[h] EXCEPT !.reads = @ + 2, !.pc = "insert"]
     IN handlers' = [handlers EXCEPT ![h] =
                       IF exit.status # 0 THEN Finish(slot, exit) ELSE slot]
  /\ UNCHANGED <<sessionsTable, idSeq>>
  /\ UNCHANGED <<nodeEnv, clientVars>>

PostInsertStep(h) ==
  /\ Serving(h, "POST", "insert")
  /\ LET ins == PostInsert(sessionsTable, idSeq, handlers[h].body)
     IN /\ sessionsTable' = ins.table
        /\ idSeq' = idSeq + 1
        /\ handlers' = [handlers EXCEPT ![h] =
                          [@ EXCEPT !.newId = ins.newSession.id,
                                    !.writes = @ + 1, !.pc = "fetch"]]
  /\ UNCHANGED <<nodeEnv, clientVars>>

PostFetchStep(h) ==
  /\ Serving(h, "POST", "fetch")
  /\ handlers' = [handlers EXCEPT ![h] =
                    Finish([@ EXCEPT !.reads = @ + 1],
                           PostFetch(sessionsTable, handlers[h].newId))]
  /\ UNCHANGED <<sessionsTable, idSeq>>
  /\ UNCHANGED <<nodeEnv, clientVars>>

GetSessions(h) ==
  /\ handlers[h].method = "idle"
  /\ \E result \in ListSessions(sessionsTable) :
       handlers' = [handlers EXCEPT ![h] =
                      Finish([IdleHandler EXCEPT !.method = "GET", !.reads = 1],
                             Response(200, Null, Null, <<>>, result))]
  /\ UNCHANGED <<sessionsTable, idSeq>>
  /\ UNCHANGED <<nodeEnv, clientVars>>

\* the response is sent and the handler slot is free again
Respond(h) ==
  /\ handlers[h].pc = "done"
  /\ handlers' = [handlers EXCEPT ![h] = IdleHandler]
  /\ UNCHANGED <<sessionsTable, idSeq>>
  /\ UNCHANGED <<nodeEnv, clientVars>>

(***************************************************************************)
(* Requests a caller of the API can send.                                  *)
(***************************************************************************)
PatchIdStrings ==
  { <<"1">>, <<"2">>, <<"3">>, <<"9">>, <<"0">>, <<"-", "1">>, <<"1", "a">>, <<"a">> }
PatchBodies ==
  { Body(json, Undefined, Undefined, Undefined, Undefined) :
      json \in {"malformed", "nonobject"} } \cup
  { Body("ok", Undefined, Undefined, Undefined, s) :
      s \in { Str("Scheduled"), Str("Completed"), Str("completed"),
              Str("Cancelled"), Undefined } }
PostBodies ==
  { Body(json, Undefined, Undefined, Undefined, Undefined) :
      json \in {"malformed", "nonobject"} } \cup
  { Body("ok", tid, pid, d, s) :
      tid \in { Undefined, Num(0), Num(1), Num(9), Str("1") },
      pid \in { Undefined, Num(1), Num(9) },
      d \in { Undefined, DateStr("Z", 0), DateStr("Z", 2), DateStr("offset", 2),
              DateStr("invalid", 0) },
      s \in { Undefined, Str("Completed") } }

\* well-formed requests, for the runs with concurrent handlers
ValidPatchIdStrings == { <<"1">>, <<"9">> }
ValidPatchBodies ==
  { Body("ok", Undefined, Undefined, Undefined, Str(s)) : s \in StatusValues }
ValidPostBodies ==
  { Body("ok", Num(tid), Num(1), DateStr("Z", 2), Undefined) : tid \in {1, 9} }

(***************************************************************************)
(* Client state when only the API is exercised.                            *)
(***************************************************************************)
EmptyForm == [therapist_id |-> <<>>, patient_id |-> <<>>, date |-> <<>>]
NoFieldErrors == [therapist_id |-> "", patient_id |-> "", date |-> ""]
ModalInit ==
  [loading |-> FALSE, error |-> Null, formData |-> EmptyForm,
   fieldErrors |-> NoFieldErrors, isSubmitting |-> FALSE, loaded |-> FALSE]

\* the useState initial values of Home's filter, sort and pagination cells
ViewInit ==
  /\ searchTerm = ""
  /\ statusFilter = "All"
  /\ sortBy = "date"
  /\ sortOrder = "asc"
  /\ currentPage = 1
  /\ itemsPerPage = 10

NoClient ==
  /\ ViewInit
  /\ sessions = <<>>
  /\ loading = FALSE
  /\ error = Null
  /\ errorTimers = 0
  /\ successMessage = Null
  /\ showCreateModal = FALSE
  /\ updatingSessionId = 0
  /\ modal = ModalInit
  /\ net = EmptyBag

ServerInit ==
  /\ sessionsTable = SeedSessions
  /\ idSeq = Len(SeedSessions) + 1
  /\ handlers = [h \in 1..MaxHandlers |-> IdleHandler]
  /\ nodeEnv = "production"

(***************************************************************************)
(* ApiSpec: one caller, every request shape, handlers run one at a time.   *)
(***************************************************************************)
ApiInit == ServerInit /\ NoClient

ApiNext ==
  \/ \E idStr \in PatchIdStrings, body \in PatchBodies : PatchBegin(1, idStr, body)
  \/ PatchSelectStep(1)
  \/ PatchUpdateStep(1)
  \/ \E body \in PostBodies : PostBegin(1, body)
  \/ PostExistsStep(1)
  \/ PostInsertStep(1)
  \/ PostFetchStep(1)
  \/ GetSessions(1)
  \/ Respond(1)

ApiSpec == ApiInit /\ [][ApiNext]_vars

(***************************************************************************)
(* ConcurrentSpec: well-formed requests served by concurrent handlers,     *)
(* their queries interleaved.                                              *)
(***************************************************************************)
ConcurrentNext ==
  \E h \in 1..MaxHandlers :
    \/ \E idStr \in ValidPatchIdStrings, body \in ValidPatchBodies :
         PatchBegin(h, idStr, body)
    \/ PatchSelectStep(h)
    \/ PatchUpdateStep(h)
    \/ \E body \in ValidPostBodies : PostBegin(h, body)
    \/ PostExistsStep(h)
    \/ PostInsertStep(h)
    \/ PostFetchStep(h)
    \/ GetSessions(h)
    \/ Respond(h)

ConcurrentSpec == ApiInit /\ [][ConcurrentNext]_vars

(***************************************************************************)
(* FaultSpec: well-formed requests against a database whose calls may      *)
(* throw, in development and in production.                                *)
(***************************************************************************)
NodeEnvs == {"development", "production"}

\* the error text of each handler's catch-all branch
CatchText(method) ==
  CASE method = "PATCH" -> "Failed to update session"
    [] method = "POST" -> "Failed to create session"
    [] method = "GET" -> "Failed to fetch sessions"
    [] method = "GET therapists" -> "Failed to fetch therapists"
    [] method = "GET patients" -> "Failed to fetch patients"

\* a query of a PATCH or POST in progress throws
DbThrows(h) ==
  /\ handlers[h].method \in {"PATCH", "POST"}
  /\ handlers[h].pc \in {"select", "update", "exists", "insert", "fetch"}
  /\ handlers' = [handlers EXCEPT ![h] =
                    Finish(@, ServerError(CatchText(@.method), DbErrorText))]
  /\ UNCHANGED <<sessionsTable, idSeq>>
  /\ UNCHANGED <<nodeEnv, clientVars>>

\* the query of a GET handler throws
GetThrows(h, method) ==
  /\ handlers[h].method = "idle"
  /\ method \in {"GET", "GET therapists", "GET patients"}
  /\ handlers' = [handlers EXCEPT ![h] =
                    Finish([IdleHandler EXCEPT !.method = method],
                           ServerError(CatchText(method), DbErrorText))]
  /\ UNCHANGED <<sessionsTable, idSeq>>
  /\ UNCHANGED <<nodeEnv, clientVars>>

\* position of a name in alphabetical order
NameRank(name) ==
  CASE name = "Anna SLP" -> 1
    [] name = "Ariel Underwood" -> 2
    [] name = "Nemo Fisher" -> 3

\* select ... orderBy(name)
ByName(rows) ==
  CHOOSE s \in [1..Cardinality(rows) -> rows] :
    \A i, j \in DOMAIN s : i < j => NameRank(s[i].name) < NameRank(s[j].name)

GetTherapists(h) ==
  /\ handlers[h].method = "idle"
  /\ handlers' = [handlers EXCEPT ![h] =
                    Finish([IdleHandler EXCEPT !.method = "GET therapists", !.reads = 1],
                           Response(200, Null, Null, <<>>, ByName(therapistsTable)))]
  /\ UNCHANGED <<sessionsTable, idSeq>>
  /\ UNCHANGED <<nodeEnv, clientVars>>

GetPatients(h) ==
  /\ handlers[h].method = "idle"
  /\ handlers' = [handlers EXCEPT ![h] =
                    Finish([IdleHandler EXCEPT !.method = "GET patients", !.reads = 1],
                           Response(200, Null, Null, <<>>, ByName(patientsTable)))]
  /\ UNCHANGED <<sessionsTable, idSeq>>
  /\ UNCHANGED <<nodeEnv, clientVars>>

FaultInit ==
  /\ sessionsTable = SeedSessions
  /\ idSeq = Len(SeedSessions) + 1
  /\ handlers = [h \in 1..MaxHandlers |-> IdleHandler]
  /\ nodeEnv \in NodeEnvs
  /\ NoClient

FaultNext ==
  \/ \E idStr \in ValidPatchIdStrings, body \in ValidPatchBodies :
       PatchBegin(1, idStr, body)
  \/ PatchSelectStep(1)
  \/ PatchUpdateStep(1)
  \/ \E body \in ValidPostBodies : PostBegin(1, body)
  \/ PostExistsStep(1)
  \/ PostInsertStep(1)
  \/ PostFetchStep(1)
  \/ GetSessions(1)
  \/ GetTherapists(1)
  \/ GetPatients(1)
  \/ DbThrows(1)
  \/ \E method \in {"GET", "GET therapists", "GET patients"} : GetThrows(1, method)
  \/ Respond(1)

FaultSpec == FaultInit /\ [][FaultNext]_vars

(***************************************************************************)
(* StoreSpec: GET /api/sessions over any content the sessions table can    *)
(* hold.  Its therapist_id and patient_id columns are plain integers, so a *)
(* stored row may name a therapist or a patient that has no row.           *)
(***************************************************************************)
StoredRows(id) ==
  { [id |-> id, therapist_id |-> tid, patient_id |-> pid, date |-> d,
     status |-> "Scheduled"] : tid \in {1, 9}, pid \in {1, 9}, d \in {1, 2} }

StoreInit ==
  /\ \E n \in 0..(MaxSessions - 1) :
       sessionsTable \in { t \in [1..n -> UNION {StoredRows(id) : id \in 1..n}] :
                             \A i \in 1..n : t[i].id = i }
  /\ idSeq = Len(sessionsTable) + 1
  /\ handlers = [h \in 1..MaxHandlers |-> IdleHandler]
  /\ nodeEnv = "production"
  /\ NoClient

StoreNext ==
  \/ GetSessions(1)
  \/ Respond(1)

StoreSpec == StoreInit /\ [][StoreNext]_vars

(***************************************************************************)
(* Client: requests in flight.  A request is "sent" until the server has   *)
(* served it and "responded" until the client has handled the outcome.     *)
(* live = the component instance that issued it is still mounted.          *)
(***************************************************************************)
Msg(kind, id, originalStatus, body) ==
  [kind |-> kind, stage |-> "sent", id |-> id, originalStatus |-> originalStatus,
   live |-> TRUE, body |-> body, response |-> NoResponse]

RECURSIVE Copies(_, _)
Copies(S, B) ==
  IF S = {} THEN 0
  ELSE LET x == CHOOSE x \in S : TRUE
       IN CopiesIn(x, B) + Copies(S \ {x}, B)

One(m) == SetToBag({m})

\* the requests outstanding are capped
NetRoom == BagCardinality(net) < MaxInFlight

\* SessionTable and CreateSessionModal unmount: their pending continuations can
\* no longer set their state; a dropdown fetch then has nothing left to do
Detach(B) ==
  LET kept == {m \in BagToSet(B) : m.kind # "DROPDOWN"}
      dead(m) == IF m.kind \in {"PATCH", "POST"} THEN [m EXCEPT !.live = FALSE] ELSE m
  IN [x \in {dead(m) : m \in kept} |-> Copies({m \in kept : dead(m) = x}, B)]

(***************************************************************************)
(* Home renders the error panel instead of the dashboard while error is    *)
(* set, so SessionTable and CreateSessionModal are unmounted with it and   *)
(* mounted afresh when it clears.  Render(e, show, u, mo, n): the state    *)
(* after a handler that leaves error = e, showCreateModal = show and, were *)
(* the tree kept, updatingSessionId = u, modal = mo, net = n.              *)
(***************************************************************************)
ClosedModal(mo) ==
  [mo EXCEPT !.formData = EmptyForm, !.fieldErrors = NoFieldErrors, !.error = Null]

Render(e, show, u, mo, n) ==
  /\ error' = e
  /\ showCreateModal' = show
  /\ IF e # Null
       THEN /\ updatingSessionId' = 0
            /\ modal' = ModalInit
            /\ net' = Detach(n)
     ELSE IF error # Null
       THEN /\ updatingSessionId' = 0
            /\ modal' = IF show THEN [ModalInit EXCEPT !.loading = TRUE] ELSE ModalInit
            /\ net' = IF show THEN n (+) One(Msg("DROPDOWN", 0, "", NoBody)) ELSE n
     ELSE /\ updatingSessionId' = u
          /\ modal' = IF showCreateModal /\ ~show THEN ClosedModal(mo) ELSE mo
          /\ net' = n

DashboardShown == error = Null
ModalShown == error = Null /\ showCreateModal

(***************************************************************************)
(* Home                                                                    *)
(***************************************************************************)
\* fetchSessions up to its await; Refresh and Try Again both call it
Refresh ==
  /\ DashboardShown /\ ~loading
  /\ NetRoom
  /\ loading' = TRUE
  /\ Render(Null, showCreateModal, updatingSessionId, modal,
            net (+) One(Msg("GET", 0, "", NoBody)))
  /\ UNCHANGED <<sessions, errorTimers, successMessage>>
  /\ UNCHANGED <<serverVars, viewVars>>

TryAgain ==
  /\ error # Null
  /\ NetRoom
  /\ loading' = TRUE
  /\ Render(Null, showCreateModal, updatingSessionId, modal,
            net (+) One(Msg("GET", 0, "", NoBody)))
  /\ UNCHANGED <<sessions, errorTimers, successMessage>>
  /\ UNCHANGED <<serverVars, viewVars>>

\* fetchSessions after a 2xx response holding an array
FetchSessionsOk(m) ==
  /\ m.kind = "GET" /\ m.stage = "responded" /\ m.response.status = 200
  /\ sessions' = m.response.rows
  /\ loading' = FALSE
  /\ Render(error, showCreateModal, updatingSessionId, modal, net (-) One(m))
  /\ UNCHANGED <<errorTimers, successMessage>>
  /\ UNCHANGED <<serverVars, viewVars>>

\* fetchSessions when fetch rejects, the status is not ok, or the body is no array
FetchErrors ==
  { "Failed to fetch", "Failed to fetch sessions", "Invalid response format" }

FetchSessionsFail(m, text) ==
  /\ m.kind = "GET"
  /\ text \in FetchErrors
  /\ loading' = FALSE
  /\ Render(text, showCreateModal, updatingSessionId, modal, net (-) One(m))
  /\ UNCHANGED <<sessions, errorTimers, successMessage>>
  /\ UNCHANGED <<serverVars, viewVars>>

\* setSessions(prev => prev.map(...)) of handleSessionUpdate / handleSessionUpdateError
WithStatus(list, sessionId, status) ==
  [i \in DOMAIN list |->
     IF list[i].id = sessionId THEN [list[i] EXCEPT !.status = status] ELSE list[i]]

handleSessionUpdate(list, sessionId) == WithStatus(list, sessionId, "Completed")

\* a handler that reports the failure but keeps the optimistic status
handleSessionUpdateErrorKeepsStatus(list, sessionId, originalStatus) == list

handleSessionUpdateError(list, sessionId, originalStatus) ==
  WithStatus(list, sessionId, originalStatus)

UpdateFailedText == "Failed to update session. Please try again."

\* setTimeout(() => setError(null), 3000) fires
ErrorTimer ==
  /\ errorTimers > 0
  /\ errorTimers' = errorTimers - 1
  /\ Render(Null, showCreateModal, updatingSessionId, modal, net)
  /\ UNCHANGED <<sessions, loading, successMessage>>
  /\ UNCHANGED <<serverVars, viewVars>>

\* setTimeout(() => setSuccessMessage(null), 3000) fires on a shown banner
SuccessTimer ==
  /\ successMessage # Null
  /\ successMessage' = Null
  /\ UNCHANGED <<sessions, loading, error, errorTimers, showCreateModal,
                 updatingSessionId, modal, net>>
  /\ UNCHANGED <<serverVars, viewVars>>

OpenModal ==
  /\ DashboardShown /\ ~showCreateModal
  /\ NetRoom
  /\ Render(Null, TRUE, updatingSessionId, [modal EXCEPT !.loading = TRUE],
            net (+) One(Msg("DROPDOWN", 0, "", NoBody)))
  /\ UNCHANGED <<sessions, loading, errorTimers, successMessage>>
  /\ UNCHANGED <<serverVars, viewVars>>

(***************************************************************************)
(* Home: search, status filter, sort and pagination.                       *)
(***************************************************************************)
\* name.toLowerCase().includes(term) for the names and the terms of the model
Contains(name, term) ==
  /\ name # Null
  /\ \/ term = ""
     \/ <<name, term>> \in { <<"Anna SLP", "anna">>, <<"Ariel Underwood", "ariel">>,
                             <<"Nemo Fisher", "nemo">> }

matchesSearch(session, term) ==
  Contains(session.therapist_name, term) \/ Contains(session.patient_name, term)

matchesStatus(session, filter) == filter = "All" \/ session.status = filter

\* the value the comparator reads: the date, or the name || ""
SortKey(session, by) ==
  LET rank(name) == IF name = Null THEN 0 ELSE NameRank(name)
  IN CASE by = "therapist" -> rank(session.therapist_name)
       [] by = "patient" -> rank(session.patient_name)
       [] OTHER -> session.date

\* the comparator is negative: a sorts before b
SortsBefore(a, b, by, order) ==
  IF order = "asc" THEN SortKey(a, by) < SortKey(b, by)
  ELSE SortKey(a, by) > SortKey(b, by)

\* Array.prototype.sort is stable: x, the last element, goes in front of the
\* first element it sorts before
InsertSorted(sorted, x, by, order) ==
  LET later == {i \in DOMAIN sorted : SortsBefore(x, sorted[i], by, order)}
      at == IF later = {} THEN Len(sorted) + 1
            ELSE CHOOSE i \in later : \A j \in later : i <= j
  IN SubSeq(sorted, 1, at - 1) \o <<x>> \o SubSeq(sorted, at, Len(sorted))

RECURSIVE SortSessions(_, _, _)
SortSessions(list, by, order) ==
  IF list = <<>> THEN <<>>
  ELSE InsertSorted(SortSessions(SubSeq(list, 1, Len(list) - 1), by, order),
                    list[Len(list)], by, order)

filteredSessions(list, term, filter, by, order) ==
  SortSessions(SelectSeq(list, LAMBDA session :
                 matchesSearch(session, term) /\ matchesStatus(session, filter)),
               by, order)

\* Math.ceil(filteredSessions.length / itemsPerPage)
totalPages(length, perPage) == (length + perPage - 1) \div perPage

\* filteredSessions.slice(startIndex, endIndex)
paginatedSessions(filtered, page, perPage) ==
  LET startIndex == (page - 1) * perPage
      endIndex == IF startIndex + perPage < Len(filtered)
                    THEN startIndex + perPage ELSE Len(filtered)
  IN IF startIndex >= endIndex THEN <<>>
     ELSE SubSeq(filtered, startIndex + 1, endIndex)

Filtered == filteredSessions(sessions, searchTerm, statusFilter, sortBy, sortOrder)
Paginated == paginatedSessions(Filtered, currentPage, itemsPerPage)
hasActiveFilters == searchTerm # "" \/ statusFilter # "All"

\* the pagination controls are rendered
PaginationShown ==
  DashboardShown /\ Len(Filtered) > 0 /\ totalPages(Len(Filtered), itemsPerPage) > 1

ViewUnchanged ==
  /\ UNCHANGED <<sessions, loading, error, errorTimers, successMessage,
                 showCreateModal, updatingSessionId, modal, net>>
  /\ UNCHANGED serverVars

\* values the user can type or select
SearchTerms == {"", "nemo"}
StatusFilters == {"All", "Scheduled", "Completed"}
SortBys == {"date", "therapist", "patient"}
PageSizes == {5, 10, 20, 50}

\* each setter below is followed by the effect that resets the page when
\* searchTerm, statusFilter, sortBy or sortOrder has changed
setSearchTerm(term) ==
  /\ DashboardShown
  /\ term \in SearchTerms /\ term # searchTerm
  /\ searchTerm' = term
  /\ currentPage' = 1
  /\ UNCHANGED <<statusFilter, sortBy, sortOrder, itemsPerPage>>
  /\ ViewUnchanged

setStatusFilter(filter) ==
  /\ DashboardShown
  /\ filter \in StatusFilters /\ filter # statusFilter
  /\ statusFilter' = filter
  /\ currentPage' = 1
  /\ UNCHANGED <<searchTerm, sortBy, sortOrder, itemsPerPage>>
  /\ ViewUnchanged

setSortBy(by) ==
  /\ DashboardShown
  /\ by \in SortBys /\ by # sortBy
  /\ sortBy' = by
  /\ currentPage' = 1
  /\ UNCHANGED <<searchTerm, statusFilter, sortOrder, itemsPerPage>>
  /\ ViewUnchanged

setSortOrder ==
  /\ DashboardShown
  /\ sortOrder' = IF sortOrder = "asc" THEN "desc" ELSE "asc"
  /\ currentPage' = 1
  /\ UNCHANGED <<searchTerm, statusFilter, sortBy, itemsPerPage>>
  /\ ViewUnchanged

clearFilters ==
  /\ DashboardShown /\ hasActiveFilters
  /\ searchTerm' = ""
  /\ statusFilter' = "All"
  /\ currentPage' = 1
  /\ UNCHANGED <<sortBy, sortOrder, itemsPerPage>>
  /\ ViewUnchanged

setItemsPerPage(perPage) ==
  /\ DashboardShown
  /\ perPage \in PageSizes /\ perPage # itemsPerPage
  /\ itemsPerPage' = perPage
  /\ currentPage' = 1
  /\ UNCHANGED <<searchTerm, statusFilter, sortBy, sortOrder>>
  /\ ViewUnchanged

PreviousPage ==
  /\ PaginationShown /\ currentPage # 1
  /\ currentPage' = IF currentPage - 1 > 1 THEN currentPage - 1 ELSE 1
  /\ UNCHANGED <<searchTerm, statusFilter, sortBy, sortOrder, itemsPerPage>>
  /\ ViewUnchanged

NextPage ==
  /\ PaginationShown
  /\ currentPage # totalPages(Len(Filtered), itemsPerPage)
  /\ currentPage' = IF currentPage + 1 < totalPages(Len(Filtered), itemsPerPage)
                      THEN currentPage + 1
                      ELSE totalPages(Len(Filtered), itemsPerPage)
  /\ UNCHANGED <<searchTerm, statusFilter, sortBy, sortOrder, itemsPerPage>>
  /\ ViewUnchanged

(***************************************************************************)
(* SessionTable                                                            *)
(***************************************************************************)
\* the rows of a list
Shown(list) == {list[i] : i \in DOMAIN list}

\* the Mark Completed button of a row is rendered and enabled: the row is on
\* the page SessionTable is given
CanMarkCompleted(sessionId) ==
  /\ DashboardShown /\ ~loading
  /\ \E s \in Shown(Paginated) : s.id = sessionId /\ s.status = "Scheduled"
  /\ updatingSessionId # sessionId

\* the status the list shows for a session ("" when it has no such row)
RowStatus(list, sessionId) ==
  IF \E s \in Shown(list) : s.id = sessionId
    THEN (CHOOSE s \in Shown(list) : s.id = sessionId).status
    ELSE ""

\* the action cell of the row is the disabled "Updating..." button
ShowsUpdating(u, list, sessionId) ==
  RowStatus(list, sessionId) = "Scheduled" /\ u = sessionId

PatchRequest(sessionId) ==
  [idStr |-> NumToStr(sessionId),
   body |-> Body("ok", Undefined, Undefined, Undefined, Str("Completed"))]

\* handleMarkCompleted up to its await
MarkCompleted(sessionId) ==
  /\ CanMarkCompleted(sessionId)
  /\ NetRoom
  /\ LET session == CHOOSE s \in Shown(sessions) : s.id = sessionId
         originalStatus == session.status
     IN /\ sessions' = handleSessionUpdate(sessions, sessionId)
        /\ successMessage' = "Session marked as completed"
        /\ Render(error, showCreateModal, sessionId, modal,
                  net (+) One(Msg("PATCH", sessionId, originalStatus,
                                  PatchRequest(sessionId).body)))
  /\ UNCHANGED <<loading, errorTimers>>
  /\ UNCHANGED <<serverVars, viewVars>>

\* handleMarkCompleted after apiCall resolves
MarkCompletedOk(m) ==
  /\ m.kind = "PATCH" /\ m.stage = "responded"
  /\ m.response.status \in 200..299
  /\ Render(error, showCreateModal, IF m.live THEN 0 ELSE updatingSessionId, modal,
            net (-) One(m))
  /\ UNCHANGED <<sessions, loading, errorTimers, successMessage>>
  /\ UNCHANGED <<serverVars, viewVars>>

\* handleMarkCompleted after apiCall throws: the request or its response was
\* lost, the status was not 2xx, or the body could not be parsed
MarkCompletedFail(m) ==
  /\ m.kind = "PATCH"
  /\ IF m.originalStatus # ""
       THEN /\ errorTimers < MaxTimers
            /\ sessions' = handleSessionUpdateError(sessions, m.id, m.originalStatus)
            /\ errorTimers' = errorTimers + 1
            /\ Render(UpdateFailedText, showCreateModal,
                      IF m.live THEN 0 ELSE updatingSessionId, modal, net (-) One(m))
       ELSE /\ UNCHANGED <<sessions, errorTimers>>
            /\ Render(error, showCreateModal,
                      IF m.live THEN 0 ELSE updatingSessionId, modal, net (-) One(m))
  /\ UNCHANGED <<loading, successMessage>>
  /\ UNCHANGED <<serverVars, viewVars>>

(***************************************************************************)
(* CreateSessionModal                                                      *)
(***************************************************************************)
\* fetchDropdownData after both apiCalls resolve
DropdownOk(m) ==
  /\ m.kind = "DROPDOWN"
  /\ Render(error, showCreateModal, updatingSessionId,
            [modal EXCEPT !.loaded = TRUE, !.loading = FALSE], net (-) One(m))
  /\ UNCHANGED <<sessions, loading, errorTimers, successMessage>>
  /\ UNCHANGED <<serverVars, viewVars>>

\* fetchDropdownData after one of them throws
DropdownFail(m) ==
  /\ m.kind = "DROPDOWN"
  /\ Render(error, showCreateModal, updatingSessionId,
            [modal EXCEPT !.error = "Failed to fetch therapists", !.loading = FALSE],
            net (-) One(m))
  /\ UNCHANGED <<sessions, loading, errorTimers, successMessage>>
  /\ UNCHANGED <<serverVars, viewVars>>

\* values the user can put into the form: option values and datetime-local text
\*   "soon"  a time less than an hour ahead;  "later" a time further ahead
FormFields == {"therapist_id", "patient_id", "date"}
FormValues(field) ==
  IF field = "date" THEN {<<>>, <<"soon">>, <<"later">>}
  ELSE {<<>>} \cup (IF modal.loaded THEN {<<"1">>} ELSE {})

\* the instant a datetime-local text denotes
FormInstant(text) == IF text = <<"later">> THEN 2 ELSE 0

validateFutureDate(dateValue) ==
  IF dateValue = <<>> THEN "Date is required"
  ELSE IF dateValue = <<"soon">>
    THEN "Session must be scheduled at least 1 hour in advance"
  ELSE ""

FormEnabled == ModalShown /\ ~modal.loading /\ ~modal.isSubmitting

handleInputChange(field, value) ==
  /\ FormEnabled
  /\ field \in FormFields /\ value \in FormValues(field)
  /\ LET dateError == IF field = "date" /\ value # <<>>
                        THEN validateFutureDate(value) ELSE ""
     IN Render(error, showCreateModal, updatingSessionId,
               [modal EXCEPT !.formData[field] = value,
                             !.fieldErrors[field] = dateError],
               net)
  /\ UNCHANGED <<sessions, loading, errorTimers, successMessage>>
  /\ UNCHANGED <<serverVars, viewVars>>

\* validateForm: the errors object it builds
validateForm(formData) ==
  [therapist_id |-> IF formData.therapist_id = <<>>
                      THEN "Please select a therapist" ELSE "",
   patient_id |-> IF formData.patient_id = <<>>
                    THEN "Please select a patient" ELSE "",
   date |-> validateFutureDate(formData.date)]

\* the body handleSubmit posts
CreateRequest(formData) ==
  Body("ok", Num(parseInt(formData.therapist_id).value),
       Num(parseInt(formData.patient_id).value),
       DateStr("Z", FormInstant(formData.date)), Undefined)

\* inserts the table has room for, counting posts not yet served
RoomToCreate ==
  Len(sessionsTable)
    + Copies({m \in BagToSet(net) : m.kind = "POST" /\ m.stage = "sent"}, net)
    < MaxSessions

\* handleSubmit up to its await
handleSubmit ==
  /\ FormEnabled
  /\ LET errors == validateForm(modal.formData)
     IN IF errors # NoFieldErrors
          THEN Render(error, showCreateModal, updatingSessionId,
                      [modal EXCEPT !.fieldErrors = errors], net)
          ELSE /\ NetRoom /\ RoomToCreate
               /\ Render(error, showCreateModal, updatingSessionId,
                         [modal EXCEPT !.isSubmitting = TRUE, !.error = Null,
                                       !.fieldErrors = NoFieldErrors],
                         net (+) One(Msg("POST", 0, "", CreateRequest(modal.formData))))
  /\ UNCHANGED <<sessions, loading, errorTimers, successMessage>>
  /\ UNCHANGED <<serverVars, viewVars>>

\* a success handler that does not fetch the list again
handleSessionCreatedNoFetch(n) == n

\* handleSessionCreated: the requests outstanding after its fetchSessions()
handleSessionCreated(n) == n (+) One(Msg("GET", 0, "", NoBody))

\* handleSubmit after apiCall resolves: onSuccess() closes the modal and
\* handleSessionCreated() calls fetchSessions
handleSubmitOk(m) ==
  /\ m.kind = "POST" /\ m.stage = "responded"
  /\ m.response.status \in 200..299
  /\ loading' = TRUE
  /\ successMessage' = "Session created successfully"
  /\ Render(Null, FALSE, updatingSessionId,
            IF m.live
              THEN [modal EXCEPT !.formData = EmptyForm,
                                 !.fieldErrors = NoFieldErrors,
                                 !.isSubmitting = FALSE]
              ELSE modal,
            handleSessionCreated(net (-) One(m)))
  /\ UNCHANGED <<sessions, errorTimers>>
  /\ UNCHANGED <<serverVars, viewVars>>

\* handleSubmit after apiCall throws
CreateErrors == { "Network error: Unable to connect to server", "Failed to create session" }

handleSubmitFail(m, text) ==
  /\ m.kind = "POST"
  /\ text \in CreateErrors
  /\ Render(error, showCreateModal, updatingSessionId,
            IF m.live THEN [modal EXCEPT !.error = text, !.isSubmitting = FALSE]
            ELSE modal,
            net (-) One(m))
  /\ UNCHANGED <<sessions, loading, errorTimers, successMessage>>
  /\ UNCHANGED <<serverVars, viewVars>>

\* apiCall on a response that is not ok: the message of the Error it throws
apiCallError(response) ==
  IF response.error # Null THEN response.error
  ELSE IF response.message # Null THEN response.message
  ELSE "HTTP error"

\* handleSubmit after apiCall throws for a response that is not ok
handleSubmitRejected(m) ==
  /\ m.kind = "POST" /\ m.stage = "responded"
  /\ m.response.status \notin 200..299
  /\ Render(error, showCreateModal, updatingSessionId,
            IF m.live THEN [modal EXCEPT !.error = apiCallError(m.response),
                                         !.isSubmitting = FALSE]
            ELSE modal,
            net (-) One(m))
  /\ UNCHANGED <<sessions, loading, errorTimers, successMessage>>
  /\ UNCHANGED <<serverVars, viewVars>>

\* onClose from the X button (Cancel is disabled while submitting as well)
CloseModal ==
  /\ ModalShown /\ ~modal.loading
  /\ Render(error, FALSE, updatingSessionId, modal, net)
  /\ UNCHANGED <<sessions, loading, errorTimers, successMessage>>
  /\ UNCHANGED <<serverVars, viewVars>>

(***************************************************************************)
(* The server serving the client's requests, each handler run whole.       *)
(***************************************************************************)
Answered(m, response) ==
  (net (-) One(m)) (+) One([m EXCEPT !.stage = "responded", !.response = response])

ServeGet(m) ==
  /\ m.kind = "GET" /\ m.stage = "sent"
  /\ \E result \in ListSessions(sessionsTable) :
       net' = Answered(m, Response(200, Null, Null, <<>>, result))
  /\ UNCHANGED <<sessions, loading, error, errorTimers, successMessage,
                 showCreateModal, updatingSessionId, modal>>
  /\ UNCHANGED <<serverVars, viewVars>>

ServePatch(m) ==
  /\ m.kind = "PATCH" /\ m.stage = "sent"
  /\ LET run == PATCH(sessionsTable, PatchRequest(m.id).idStr, m.body)
     IN /\ sessionsTable' = run.table
        /\ net' = Answered(m, run.response)
  /\ UNCHANGED <<sessions, loading, error, errorTimers, successMessage,
                 showCreateModal, updatingSessionId, modal>>
  /\ UNCHANGED <<idSeq, handlers, nodeEnv, viewVars>>

ServePost(m) ==
  /\ m.kind = "POST" /\ m.stage = "sent"
  /\ LET run == POST(sessionsTable, idSeq, m.body)
     IN /\ sessionsTable' = run.table
        /\ idSeq' = run.idSeq
        /\ net' = Answered(m, run.response)
  /\ UNCHANGED <<sessions, loading, error, errorTimers, successMessage,
                 showCreateModal, updatingSessionId, modal>>
  /\ UNCHANGED <<handlers, nodeEnv, viewVars>>

(***************************************************************************)
(* Spec: the dashboard against the server.  Home has mounted and its       *)
(* effect has called fetchSessions.                                        *)
(***************************************************************************)
Init ==
  /\ ServerInit
  /\ ViewInit
  /\ sessions = <<>>
  /\ loading = TRUE
  /\ error = Null
  /\ errorTimers = 0
  /\ successMessage = Null
  /\ showCreateModal = FALSE
  /\ updatingSessionId = 0
  /\ modal = ModalInit
  /\ net = One(Msg("GET", 0, "", NoBody))

\* the user works in the table: refreshes, retries and marks sessions completed
UpdateNext ==
  \/ Refresh
  \/ TryAgain
  \/ ErrorTimer
  \/ SuccessTimer
  \/ \E sessionId \in 1..MaxSessions : MarkCompleted(sessionId)
  \/ \E m \in BagToSet(net) : ServeGet(m)
  \/ \E m \in BagToSet(net) : ServePatch(m)
  \/ \E m \in BagToSet(net) : FetchSessionsOk(m)
  \/ \E m \in BagToSet(net) : \E text \in FetchErrors : FetchSessionsFail(m, text)
  \/ \E m \in BagToSet(net) : MarkCompletedOk(m)
  \/ \E m \in BagToSet(net) : MarkCompletedFail(m)

UpdateSpec == Init /\ [][UpdateNext]_vars

\* the user creates sessions: refreshes, retries and works in the modal
CreateNext ==
  \/ Refresh
  \/ TryAgain
  \/ SuccessTimer
  \/ OpenModal
  \/ CloseModal
  \/ handleSubmit
  \/ \E field \in FormFields : \E value \in FormValues(field) :
       handleInputChange(field, value)
  \/ \E m \in BagToSet(net) : ServeGet(m)
  \/ \E m \in BagToSet(net) : ServePost(m)
  \/ \E m \in BagToSet(net) : FetchSessionsOk(m)
  \/ \E m \in BagToSet(net) : \E text \in FetchErrors : FetchSessionsFail(m, text)
  \/ \E m \in BagToSet(net) : DropdownOk(m)
  \/ \E m \in BagToSet(net) : DropdownFail(m)
  \/ \E m \in BagToSet(net) : handleSubmitOk(m)
  \/ \E m \in BagToSet(net) : \E text \in CreateErrors : handleSubmitFail(m, text)

CreateSpec == Init /\ [][CreateNext]_vars

(***************************************************************************)
(* PageSpec: a store of six sessions, one of them still Scheduled; the     *)
(* user searches, filters, sorts, pages, marks the session completed and   *)
(* refreshes.                                                              *)
(***************************************************************************)
PageSeed ==
  [i \in 1..6 |->
     [id |-> i, therapist_id |-> 1, patient_id |-> IF i = 6 THEN 2 ELSE 1, date |-> i,
      status |-> IF i = 6 THEN "Scheduled" ELSE "Completed"]]

PageInit ==
  /\ sessionsTable = PageSeed
  /\ idSeq = Len(PageSeed) + 1
  /\ handlers = [h \in 1..MaxHandlers |-> IdleHandler]
  /\ nodeEnv = "production"
  /\ ViewInit
  /\ sessions = <<>>
  /\ loading = TRUE
  /\ error = Null
  /\ errorTimers = 0
  /\ successMessage = Null
  /\ showCreateModal = FALSE
  /\ updatingSessionId = 0
  /\ modal = ModalInit
  /\ net = One(Msg("GET", 0, "", NoBody))

PageNext ==
  \/ Refresh
  \/ TryAgain
  \/ ErrorTimer
  \/ setSortOrder
  \/ clearFilters
  \/ PreviousPage
  \/ NextPage
  \/ \E term \in SearchTerms : setSearchTerm(term)
  \/ \E filter \in StatusFilters : setStatusFilter(filter)
  \/ \E by \in SortBys : setSortBy(by)
  \/ \E perPage \in PageSizes : setItemsPerPage(perPage)
  \/ \E sessionId \in 1..Len(PageSeed) : MarkCompleted(sessionId)
  \/ \E m \in BagToSet(net) : ServeGet(m)
  \/ \E m \in BagToSet(net) : ServePatch(m)
  \/ \E m \in BagToSet(net) : FetchSessionsOk(m)
  \/ \E m \in BagToSet(net) : MarkCompletedOk(m)
  \/ \E m \in BagToSet(net) : MarkCompletedFail(m)

PageSpec == PageInit /\ [][PageNext]_vars

(***************************************************************************)
(* SuccessSpec: the dashboard when no request fails: the user refreshes,   *)
(* marks sessions completed and creates sessions, and every request is     *)
(* served and its answer handled.                                          *)
(***************************************************************************)
SuccessNext ==
  \/ Refresh
  \/ SuccessTimer
  \/ OpenModal
  \/ CloseModal
  \/ handleSubmit
  \/ \E sessionId \in 1..MaxSessions : MarkCompleted(sessionId)
  \/ \E field \in FormFields : \E value \in FormValues(field) :
       handleInputChange(field, value)
  \/ \E m \in BagToSet(net) : ServeGet(m)
  \/ \E m \in BagToSet(net) : ServePatch(m)
  \/ \E m \in BagToSet(net) : ServePost(m)
  \/ \E m \in BagToSet(net) : FetchSessionsOk(m)
  \/ \E m \in BagToSet(net) : MarkCompletedOk(m)
  \/ \E m \in BagToSet(net) : DropdownOk(m)
  \/ \E m \in BagToSet(net) : handleSubmitOk(m)

SuccessSpec == Init /\ [][SuccessNext]_vars

(***************************************************************************)
(* RejectedSpec: the modal has posted a filled form and the answer is any  *)
(* rejection the POST handler gives; the user then edits and submits again.*)
(***************************************************************************)
FilledForm == [therapist_id |-> <<"1">>, patient_id |-> <<"1">>, date |-> <<"later">>]

\* the answers of the POST handler that are not a success
PostRejections ==
  { r \in { POST(SeedSessions, Len(SeedSessions) + 1, body).response :
              body \in PostBodies } : r.status \notin 200..299 }

RejectedInit ==
  /\ ServerInit
  /\ ViewInit
  /\ sessions \in ListSessions(SeedSessions)
  /\ loading = FALSE
  /\ error = Null
  /\ errorTimers = 0
  /\ successMessage = Null
  /\ showCreateModal = TRUE
  /\ updatingSessionId = 0
  /\ modal = [ModalInit EXCEPT !.loaded = TRUE, !.formData = FilledForm,
                               !.isSubmitting = TRUE]
  /\ \E response \in PostRejections :
       net = One([Msg("POST", 0, "", CreateRequest(FilledForm))
                    EXCEPT !.stage = "responded", !.response = response])

RejectedNext ==
  \/ handleSubmit
  \/ CloseModal
  \/ OpenModal
  \/ \E field \in FormFields : \E value \in FormValues(field) :
       handleInputChange(field, value)
  \/ \E m \in BagToSet(net) : ServeGet(m)
  \/ \E m \in BagToSet(net) : ServePost(m)
  \/ \E m \in BagToSet(net) : FetchSessionsOk(m)
  \/ \E m \in BagToSet(net) : DropdownOk(m)
  \/ \E m \in BagToSet(net) : handleSubmitOk(m)
  \/ \E m \in BagToSet(net) : handleSubmitRejected(m)

RejectedSpec == RejectedInit /\ [][RejectedNext]_vars

(***************************************************************************)
(* Properties of the API handlers.                                         *)
(***************************************************************************)
Done(h, method) == handlers[h].method = method /\ handlers[h].pc = "done"
SessionIds == {sessionsTable[i].id : i \in DOMAIN sessionsTable}
RowOf(id) == CHOOSE r \in {sessionsTable[i] : i \in DOMAIN sessionsTable} : r.id = id

\* a PATCH whose stored status already was the requested one when it was read
SawRequestedStatus(h) ==
  /\ Done(h, "PATCH")
  /\ handlers[h].existing # <<>>
  /\ handlers[h].existing[1].status = handlers[h].body.status.s

\* C8: every PATCH that finds its session already in the requested status
\* answers 200 and performs no write, however often it is repeated.
C8_PatchIdempotent ==
  \A h \in DOMAIN handlers :
    SawRequestedStatus(h) =>
      /\ handlers[h].response.status = 200
      /\ handlers[h].writes = 0
      /\ handlers[h].response.rows = handlers[h].existing

\* the same PATCH served twice, both times a no-op 200, the row still in status X
C8_Witness ==
  \E h1, h2 \in DOMAIN handlers :
    /\ h1 # h2
    /\ SawRequestedStatus(h1) /\ SawRequestedStatus(h2)
    /\ handlers[h1].sessionId = handlers[h2].sessionId
    /\ handlers[h1].body = handlers[h2].body
    /\ handlers[h1].response.status = 200 /\ handlers[h2].response.status = 200
    /\ handlers[h1].sessionId \in SessionIds
    /\ RowOf(handlers[h1].sessionId).status = handlers[h1].body.status.s

\* a PATCH with a positive id and a valid status finishes in this step
FinishesValidPatch(h) ==
  /\ handlers[h].pc # "done"
  /\ handlers'[h].pc = "done"
  /\ handlers'[h].method = "PATCH"
  /\ PatchValidate(handlers'[h].idStr, handlers'[h].body).status = 0

\* C9: a well-formed PATCH addressed to an id no session has answers 404 with
\* an error field, and the sessions table is left as it was.
C9_PatchNotFound ==
  [][\A h \in DOMAIN handlers :
       (FinishesValidPatch(h) /\ handlers'[h].sessionId \notin SessionIds) =>
         /\ handlers'[h].response.status = 404
         /\ handlers'[h].response.error # Null
         /\ handlers'[h].writes = 0
         /\ sessionsTable' = sessionsTable]_vars

\* a PATCH for id 9, which no session has, has been answered 404
C9_Witness ==
  /\ Done(1, "PATCH")
  /\ handlers[1].idStr = <<"9">>
  /\ handlers[1].body.status = Str("Completed")
  /\ handlers[1].response.status = 404
  /\ 9 \notin SessionIds

\* a POST body whose ids are positive integers of existing rows
ExistingIds(body) ==
  /\ body.json = "ok"
  /\ body.therapist_id.t = "number" /\ body.therapist_id.v > 0
  /\ body.patient_id.t = "number" /\ body.patient_id.v > 0
  /\ \E r \in therapistsTable : r.id = body.therapist_id.v
  /\ \E r \in patientsTable : r.id = body.patient_id.v

\* the session a finished POST reports is stored as Scheduled with the given fields
CreatedAsGiven(h) ==
  /\ handlers[h].response.status = 201
  /\ handlers[h].writes = 1
  /\ handlers[h].newId \in SessionIds
  /\ Cardinality({i \in DOMAIN sessionsTable :
                    sessionsTable[i].id = handlers[h].newId}) = 1
  /\ LET row == RowOf(handlers[h].newId)
     IN /\ row.therapist_id = handlers[h].body.therapist_id.v
        /\ row.patient_id = handlers[h].body.patient_id.v
        /\ row.date = handlers[h].body.date.v
        /\ row.status = "Scheduled"

\* C10: a POST with existing positive ids and a valid timezone-explicit
\* timestamp (UTC "Z" or a numeric offset) answers 201 and stores one new
\* Scheduled session with the given fields, whatever status the body carries.
C10_PostCreatesScheduled ==
  \A h \in DOMAIN handlers :
    ( /\ Done(h, "POST")
      /\ ExistingIds(handlers[h].body)
      /\ handlers[h].body.date.t = "string"
      /\ handlers[h].body.date.s \in {"Z", "offset"} )
    => CreatedAsGiven(h)

(***************************************************************************)
(* Properties of the dashboard.                                            *)
(***************************************************************************)
PatchesInFlight(sessionId) ==
  Copies({m \in BagToSet(net) : m.kind = "PATCH" /\ m.id = sessionId}, net)

\* C1: every step that handles the failure of a mark-completed request for a
\* session leaves that session Scheduled in the local list, whatever else
\* (other rows' updates, list fetches) happened while it was in flight.
C1_Rollback ==
  [][\A m \in BagToSet(net) :
       MarkCompletedFail(m) => RowStatus(sessions', m.id) = "Scheduled"]_vars

\* a failure has just been handled for a row whose update the server had
\* not applied, and the row reads Scheduled again
C1_Witness ==
  /\ error = UpdateFailedText
  /\ errorTimers > 0
  /\ \E sessionId \in 1..MaxSessions :
       /\ RowStatus(sessions, sessionId) = "Scheduled"
       /\ PatchesInFlight(sessionId) = 0
       /\ \A other \in 1..MaxSessions \ {sessionId} :
            RowStatus(sessions, other) = "Completed" \/ RowStatus(sessions, other) = ""

\* C2: starting, succeeding or failing a mark-completed update on row a
\* changes neither the local status nor the "Updating..." indicator of any
\* other row b.
C2_RowIsolation ==
  [][\A a \in 1..MaxSessions :
       (\/ MarkCompleted(a)
        \/ \E m \in BagToSet(net) :
             m.id = a /\ (MarkCompletedOk(m) \/ MarkCompletedFail(m)))
       => \A b \in 1..MaxSessions \ {a} :
            /\ RowStatus(sessions', b) = RowStatus(sessions, b)
            /\ ShowsUpdating(updatingSessionId', sessions', b)
                 <=> ShowsUpdating(updatingSessionId, sessions, b)]_vars

\* C3: at most one PATCH per session id is in flight.
C3_OnePatchPerSession ==
  \A sessionId \in 1..MaxSessions : PatchesInFlight(sessionId) <= 1

\* C4: every step that handles a success response to a mark-completed request
\* for a session leaves that session Completed in the local list.
C4_OptimisticStands ==
  [][\A m \in BagToSet(net) :
       MarkCompletedOk(m) => RowStatus(sessions', m.id) = "Completed"]_vars

\* C5: while a mark-completed request for a session is in flight, the row's
\* action cell is the disabled "Updating..." button.
C5_PendingShown ==
  \A m \in BagToSet(net) :
    m.kind = "PATCH" => ShowsUpdating(updatingSessionId, sessions, m.id)

GetsInFlight(n) == Copies({m \in BagToSet(n) : m.kind = "GET"}, n)

\* C6: the local list changes only when a list-fetch response is applied, and
\* then becomes that response's rows; handling a successful creation leaves
\* the list alone, closes the modal and issues exactly one more GET.
C6_NoOptimisticInsert ==
  [][/\ sessions' # sessions =>
          \E m \in BagToSet(net) :
            FetchSessionsOk(m) /\ sessions' = m.response.rows
     /\ \A m \in BagToSet(net) :
          handleSubmitOk(m) =>
            /\ sessions' = sessions
            /\ ~showCreateModal'
            /\ GetsInFlight(net') = GetsInFlight(net) + 1]_vars

\* a creation has been handled: the modal is closed, the fetch is on its
\* way, and the list still is the one from before the submission
C6_Witness ==
  /\ successMessage = "Session created successfully"
  /\ ~showCreateModal
  /\ Len(sessionsTable) = Len(SeedSessions) + 1
  /\ Len(sessions) = Len(SeedSessions)
  /\ GetsInFlight(net) = 1
  /\ \E m \in BagToSet(net) : m.kind = "GET" /\ m.stage = "sent"

\* C7: when the creation banner is up, nothing is in flight and no error is
\* shown, the local list holds the session the server created last, with
\* the id, status and names the server has for it.
C7_CreatedSessionListed ==
  ( /\ successMessage = "Session created successfully"
    /\ net = EmptyBag
    /\ error = Null /\ ~loading )
  => \E i \in DOMAIN sessions :
       sessions[i] = WithDetails(sessionsTable[Len(sessionsTable)])

(***************************************************************************)
(* Further properties of the API handlers.                                 *)
(***************************************************************************)
\* a positive integer that is no id of the rows
UnknownId(val, rows) ==
  val.t = "number" /\ val.v > 0 /\ ~\E r \in rows : r.id = val.v

\* C11: a POST whose therapist_id or patient_id is a positive integer that no
\* row of its table has answers 400 (not 201, not 500) and inserts nothing.
C11_PostUnknownReference ==
  \A h \in DOMAIN handlers :
    ( /\ Done(h, "POST")
      /\ handlers[h].body.json = "ok"
      /\ \/ UnknownId(handlers[h].body.therapist_id, therapistsTable)
         \/ UnknownId(handlers[h].body.patient_id, patientsTable) )
    => /\ handlers[h].response.status = 400
       /\ handlers[h].writes = 0
       /\ handlers[h].newId = 0

\* an otherwise valid POST naming therapist 9 was turned down by the lookup
C11_Witness ==
  /\ Done(1, "POST")
  /\ handlers[1].body.therapist_id = Num(9)
  /\ handlers[1].body.patient_id = Num(1)
  /\ handlers[1].body.date = DateStr("Z", 2)
  /\ handlers[1].response.status = 400
  /\ handlers[1].response.error = "Invalid therapist ID"
  /\ Len(sessionsTable) = Len(SeedSessions)

\* the fields a POST body lacks
MissingFields(body) ==
  {f \in {"therapist_id", "patient_id", "date"} : body[f].t = "undefined"}

DetailFields(response) ==
  {response.details[i].field : i \in DOMAIN response.details}

\* C12: a POST whose body lacks a non-empty set M of the three fields answers
\* 400 with a details entry for every field of M, whatever the other fields are.
C12_ValidationComplete ==
  \A h \in DOMAIN handlers :
    ( /\ Done(h, "POST")
      /\ handlers[h].body.json = "ok"
      /\ MissingFields(handlers[h].body) # {} )
    => /\ handlers[h].response.status = 400
       /\ MissingFields(handlers[h].body) \subseteq DetailFields(handlers[h].response)

\* a POST lacking two fields, the third invalid, reported all three
C12_Witness ==
  /\ Done(1, "POST")
  /\ handlers[1].body.json = "ok"
  /\ MissingFields(handlers[1].body) = {"patient_id", "date"}
  /\ handlers[1].body.therapist_id = Num(0)
  /\ Len(handlers[1].response.details) = 3
  /\ DetailFields(handlers[1].response) = {"therapist_id", "patient_id", "date"}

\* handler h answers a request of the method in this step
Finishes(h, method) ==
  /\ handlers[h].pc # "done"
  /\ handlers'[h].pc = "done"
  /\ handlers'[h].method = method

\* a parsed body whose status is not exactly Scheduled or Completed
InvalidStatus(body) ==
  /\ body.json # "malformed"
  /\ ~(body.status.t = "string" /\ body.status.s \in StatusValues)

\* C13: a PATCH whose body carries no status or a status other than exactly
\* Scheduled or Completed answers 400 and changes nothing in the table.
C13_PatchInvalidStatus ==
  [][\A h \in DOMAIN handlers :
       (Finishes(h, "PATCH") /\ InvalidStatus(handlers'[h].body)) =>
         /\ handlers'[h].response.status = 400
         /\ handlers'[h].writes = 0
         /\ sessionsTable' = sessionsTable]_vars

\* a PATCH of an existing Scheduled session with status "completed" answered 400
C13_Witness ==
  /\ Done(1, "PATCH")
  /\ handlers[1].idStr = <<"1">>
  /\ handlers[1].body.status = Str("completed")
  /\ handlers[1].response.status = 400
  /\ handlers[1].response.error = "Validation failed"
  /\ RowOf(1).status = "Scheduled"

\* the text is a decimal numeral of a positive integer and nothing else
IsPositiveInteger(idStr) ==
  /\ idStr # <<>>
  /\ \A i \in DOMAIN idStr : IsDigit(idStr[i])
  /\ DigitsValue(idStr, 0) > 0

\* C14: a PATCH whose path id is not a positive integer (text, zero, negative,
\* or digits followed by other characters) answers 400 with the invalid
\* session id error, whatever its body, and runs no query.
C14_PatchInvalidId ==
  \A h \in DOMAIN handlers :
    (Done(h, "PATCH") /\ ~IsPositiveInteger(handlers[h].idStr))
    => /\ handlers[h].response.status = 400
       /\ handlers[h].response.error = "Invalid session ID format"
       /\ handlers[h].reads = 0
       /\ handlers[h].writes = 0

\* the body of the request could not be parsed or fails the handler's schema
BodyRejected(slot) ==
  \/ slot.body.json = "malformed"
  \/ slot.method = "POST" /\ createSessionSchema(slot.body) # <<>>
  \/ slot.method = "PATCH" /\ updateSessionSchema(slot.body) # <<>>

\* C15: a POST, or a PATCH with an accepted id, whose body cannot be parsed
\* or fails the schema answers 400 'Validation failed' and runs no query.
C15_BodyFailureIs400 ==
  \A h \in DOMAIN handlers :
    ( /\ Done(h, "POST") \/ Done(h, "PATCH")
      /\ Done(h, "PATCH") =>
           (~parseInt(handlers[h].idStr).nan /\ parseInt(handlers[h].idStr).value > 0)
      /\ BodyRejected(handlers[h]) )
    => /\ handlers[h].response.status = 400
       /\ handlers[h].response.error = "Validation failed"
       /\ handlers[h].reads = 0
       /\ handlers[h].writes = 0

GenericErrors ==
  {CatchText(method) :
     method \in {"PATCH", "POST", "GET", "GET therapists", "GET patients"}}

\* C16: when a query throws inside a handler, the response is 500 with the
\* handler's generic error; its message is the internal error text only in
\* development and the fixed 'Internal server error' otherwise.
C16_PersistenceFailure ==
  [][\A h \in DOMAIN handlers :
       (\/ DbThrows(h)
        \/ \E method \in {"GET", "GET therapists", "GET patients"} : GetThrows(h, method))
       => /\ handlers'[h].response.status = 500
          /\ handlers'[h].response.error \in GenericErrors
          /\ handlers'[h].response.details = <<>>
          /\ handlers'[h].response.rows = <<>>
          /\ handlers'[h].response.message =
               (IF nodeEnv = "development" THEN DbErrorText
                ELSE "Internal server error")
          /\ sessionsTable' = sessionsTable]_vars

\* in production the update of a PATCH threw after its select: 500, no detail
C16_Witness ==
  /\ nodeEnv = "production"
  /\ Done(1, "PATCH")
  /\ handlers[1].reads = 1
  /\ handlers[1].response.status = 500
  /\ handlers[1].response.error = "Failed to update session"
  /\ handlers[1].response.message = "Internal server error"

\* C17: a GET of the sessions returns every stored session exactly once, as
\* the table holds it, in ascending order of date, whatever the order of
\* insertion.
C17_ListOrdered ==
  \A h \in DOMAIN handlers :
    (Done(h, "GET") /\ handlers[h].response.status = 200) =>
      LET rows == handlers[h].response.rows
      IN /\ Len(rows) = Len(sessionsTable)
         /\ \A k \in DOMAIN sessionsTable :
              Cardinality({i \in DOMAIN rows : rows[i].id = sessionsTable[k].id}) = 1
         /\ \A k \in DOMAIN sessionsTable :
              \E i \in DOMAIN rows : rows[i] = WithDetails(sessionsTable[k])
         /\ \A i, j \in DOMAIN rows : i < j => rows[i].date <= rows[j].date

\* the session inserted last has the earliest date and is listed first
C17_Witness ==
  /\ Done(1, "GET")
  /\ Len(sessionsTable) = Len(SeedSessions) + 1
  /\ \A k \in 1..Len(SeedSessions) :
       sessionsTable[Len(sessionsTable)].date < sessionsTable[k].date
  /\ Len(handlers[1].response.rows) = Len(sessionsTable)
  /\ handlers[1].response.rows[1].id = sessionsTable[Len(sessionsTable)].id

\* C18: no step of the API removes a session or changes the id, therapist,
\* patient or date of a stored one; a status changes only in the update of a
\* PATCH addressed to that row; an insert adds one row with an id no row has
\* had; ids stay unique.
C18_Frame ==
  [][/\ Len(sessionsTable') >= Len(sessionsTable)
     /\ \A i \in DOMAIN sessionsTable :
          /\ sessionsTable'[i].id = sessionsTable[i].id
          /\ sessionsTable'[i].therapist_id = sessionsTable[i].therapist_id
          /\ sessionsTable'[i].patient_id = sessionsTable[i].patient_id
          /\ sessionsTable'[i].date = sessionsTable[i].date
          /\ sessionsTable'[i].status # sessionsTable[i].status =>
               \E h \in DOMAIN handlers :
                 /\ PatchUpdateStep(h)
                 /\ handlers[h].sessionId = sessionsTable[i].id
     /\ Len(sessionsTable') > Len(sessionsTable) =>
          /\ Len(sessionsTable') = Len(sessionsTable) + 1
          /\ sessionsTable'[Len(sessionsTable')].id >= idSeq
     /\ \A i, j \in DOMAIN sessionsTable' :
          i # j => sessionsTable'[i].id # sessionsTable'[j].id
     /\ \A i \in DOMAIN sessionsTable' : sessionsTable'[i].id < idSeq'
     /\ idSeq' >= idSeq]_vars

\* a PATCH has completed session 1 and a POST has added a session: the other
\* seeded row is as it was and the new row has the next id
C18_Witness ==
  /\ Len(sessionsTable) = Len(SeedSessions) + 1
  /\ sessionsTable[1] = [SeedSessions[1] EXCEPT !.status = "Completed"]
  /\ sessionsTable[2] = SeedSessions[2]
  /\ sessionsTable[Len(sessionsTable)].id = Len(SeedSessions) + 1

(***************************************************************************)
(* Further properties of the dashboard.                                    *)
(***************************************************************************)
\* C19: when the failure of a create request is handled while Home has the
\* modal open, the modal is still open and on screen, shows the failure
\* inline, holds the values that were submitted, and is no longer submitting;
\* the local list is untouched.
C19_CreateFailureKeepsForm ==
  [][\A m \in BagToSet(net) : \A text \in CreateErrors :
       (handleSubmitFail(m, text) /\ showCreateModal) =>
         /\ showCreateModal' /\ error' = Null
         /\ modal'.error = text
         /\ CreateRequest(modal'.formData) = m.body
         /\ ~modal'.isSubmitting
         /\ sessions' = sessions]_vars

\* a request that this step sends: it is outstanding after the step, not before
NewRequest ==
  \E m \in BagToSet(net') :
    m.stage = "sent" /\ m.live /\ CopiesIn(m, net') > CopiesIn(m, net)

\* C20: a list fetch that fails (network error, non-success status, body that
\* is no array) shows the error panel with its Try Again control, leaves the
\* session list as it was, ends the loading state and sends nothing; while the
\* panel of a failed list fetch is shown the client sends no request until the
\* user acts (Try Again is the one control the panel offers): it never fetches
\* again by itself.
C20_FetchFailureNoRetry ==
  [][/\ \A m \in BagToSet(net) : \A text \in FetchErrors :
          FetchSessionsFail(m, text) =>
            /\ error' = text
            /\ sessions' = sessions
            /\ ~loading'
            /\ ~NewRequest
     /\ (error \in FetchErrors /\ NewRequest) => TryAgain]_vars

(***************************************************************************)
(* Further properties of the API handlers.                                 *)
(***************************************************************************)
\* handler h2 serves, or has served and not yet answered, the same PATCH as h
SameRequest(h, h2) ==
  /\ h2 # h
  /\ handlers[h2].method = "PATCH"
  /\ handlers[h2].idStr = handlers'[h].idStr
  /\ handlers[h2].body = handlers'[h].body

\* the rows other than the one with this id
OtherRows(table, id) == SelectSeq(table, LAMBDA r : r.id # id)

\* C21: when two PATCH requests setting the same status X on the same existing
\* session are served concurrently, then however their select and update steps
\* interleave, each of them finishes with 200, leaves the row in status X, and
\* leaves every other row as it was.
C21_ConcurrentDuplicatePatch ==
  [][\A h \in DOMAIN handlers :
       ( /\ FinishesValidPatch(h)
         /\ handlers'[h].sessionId \in SessionIds
         /\ \E h2 \in DOMAIN handlers : SameRequest(h, h2) )
       => /\ handlers'[h].response.status = 200
          /\ \E i \in DOMAIN sessionsTable' :
               /\ sessionsTable'[i].id = handlers'[h].sessionId
               /\ sessionsTable'[i].status = handlers'[h].body.status.s
          /\ OtherRows(sessionsTable', handlers'[h].sessionId)
               = OtherRows(sessionsTable, handlers'[h].sessionId)]_vars

\* both duplicates read the row as Scheduled before either wrote, both wrote,
\* both answered 200, and the row is Completed with the other seed row untouched
C21_Witness ==
  \E h1, h2 \in DOMAIN handlers :
    /\ h1 # h2
    /\ Done(h1, "PATCH") /\ Done(h2, "PATCH")
    /\ handlers[h1].idStr = <<"1">> /\ handlers[h2].idStr = <<"1">>
    /\ handlers[h1].body.status = Str("Completed")
    /\ handlers[h2].body.status = Str("Completed")
    /\ handlers[h1].writes = 1 /\ handlers[h2].writes = 1
    /\ handlers[h1].response.status = 200 /\ handlers[h2].response.status = 200
    /\ RowOf(1).status = "Completed"
    /\ OtherRows(sessionsTable, 1) = OtherRows(SeedSessions, 1)

\* the 400s of input validation: the path id check and the schema parse
ValidationErrors == {"Invalid session ID format", "Validation failed"}

\* handler h finishes in this step and rejects its request as invalid input
RejectsAsInvalid(h) ==
  /\ handlers[h].pc # "done"
  /\ handlers'[h].pc = "done"
  /\ handlers'[h].method \in {"POST", "PATCH"}
  /\ handlers'[h].response.status = 400
  /\ handlers'[h].response.error \in ValidationErrors

\* C22: a POST or PATCH that is rejected with a validation 400 (invalid path
\* id, schema-invalid body) has issued no database read and no write by then,
\* and the store is as it was.
C22_ValidationBeforePersistence ==
  [][\A h \in DOMAIN handlers :
       RejectsAsInvalid(h) =>
         /\ handlers'[h].reads = 0
         /\ handlers'[h].writes = 0
         /\ sessionsTable' = sessionsTable
         /\ idSeq' = idSeq]_vars

\* a PATCH with a valid id and a status outside the enumeration has been
\* rejected by the schema with no query issued
C22_Witness ==
  /\ Done(1, "PATCH")
  /\ handlers[1].idStr = <<"1">>
  /\ handlers[1].body.status = Str("Cancelled")
  /\ handlers[1].response.status = 400
  /\ handlers[1].response.error = "Validation failed"
  /\ handlers[1].reads = 0 /\ handlers[1].writes = 0

\* C23: whatever bodies the POST and PATCH requests served so far carried,
\* every stored session's status is Scheduled or Completed.
C23_StatusEnumeration ==
  \A i \in DOMAIN sessionsTable : sessionsTable[i].status \in StatusValues

\* a session has been created and one completed, and a PATCH asking for a
\* status outside the enumeration has just been turned down
C23_Witness ==
  /\ Done(1, "PATCH")
  /\ handlers[1].idStr = <<"3">>
  /\ handlers[1].body.status = Str("Cancelled")
  /\ handlers[1].response.status = 400
  /\ Len(sessionsTable) = 3
  /\ 3 \in SessionIds
  /\ RowOf(3).status = "Completed"
  /\ RowOf(1).status = "Scheduled"

\* the row's therapist and patient are rows of their tables
References(row) ==
  /\ \E t \in therapistsTable : t.id = row.therapist_id
  /\ \E q \in patientsTable : q.id = row.patient_id

\* C24: the seed sessions reference existing therapists and patients, and
\* however the handlers' queries interleave, every stored session keeps
\* referencing an existing therapist and an existing patient.
C24_ReferencesExist ==
  \A i \in DOMAIN sessionsTable : References(sessionsTable[i])

\* a POST naming a therapist that does not exist has been turned down while
\* another POST, served at the same time, has stored its session
C24_Witness ==
  \E h1, h2 \in DOMAIN handlers :
    /\ Done(h1, "POST") /\ handlers[h1].body.therapist_id = Num(9)
    /\ handlers[h1].response.status = 400
    /\ handlers[h2].method = "POST" /\ handlers[h2].writes = 1
    /\ Len(sessionsTable) = Len(SeedSessions) + 1
    /\ \A i \in DOMAIN SeedSessions : References(SeedSessions[i])

\* the row GET reports for a stored session names "" where the session's
\* therapist or patient has no row
ListedWithEmptyNames(rows, session) ==
  \E j \in DOMAIN rows :
    /\ rows[j].id = session.id
    /\ (~\E t \in therapistsTable : t.id = session.therapist_id)
         => rows[j].therapist_name = ""
    /\ (~\E q \in patientsTable : q.id = session.patient_id)
         => rows[j].patient_name = ""

\* C25: GET /api/sessions lists every stored session, also one whose therapist
\* or patient row does not exist, and gives the empty string as the missing
\* therapist_name or patient_name.
C25_MissingNamesEmpty ==
  \A h \in DOMAIN handlers :
    (Done(h, "GET") /\ handlers[h].response.status = 200) =>
      \A i \in DOMAIN sessionsTable :
        ListedWithEmptyNames(handlers[h].response.rows, sessionsTable[i])

(***************************************************************************)
(* Further properties of the create modal.                                 *)
(***************************************************************************)
\* the details of a rejection that name a field of the form
FieldDetails(response) ==
  {response.details[i] : i \in {j \in DOMAIN response.details :
                                  response.details[j].field \in FormFields}}

C27_QuiescentAgreement ==
  net = EmptyBag =>
    \A i \in DOMAIN sessions :
      /\ sessions[i].id \in SessionIds
      /\ sessions[i].status = RowOf(sessions[i].id).status

(***************************************************************************)
(* Further properties of the dashboard's list view.                        *)
(***************************************************************************)
\* C28: whatever the user searched, filtered, sorted, paged, marked
\* completed or refreshed, and whatever was reverted, the current page lies
\* between 1 and max(1, number of pages of the filtered list), so a filtered
\* list that has rows is never shown as a page without rows.
C28_PageInRange ==
  LET pages == totalPages(Len(Filtered), itemsPerPage)
  IN /\ currentPage >= 1
     /\ currentPage <= (IF pages > 1 THEN pages ELSE 1)
     /\ Len(Filtered) > 0 => Len(Paginated) > 0

\* C29: the auto-dismiss timer of a status-update failure clears that error
\* and no other: an error raised by a failed list fetch is displayed until
\* the user starts a new fetch, also when the timer of an earlier
\* status-update failure fires in the meantime.
C29_OnlyUpdateErrorTransient ==
  [][/\ (ErrorTimer /\ error # UpdateFailedText) => error' = error
     /\ (error \in FetchErrors /\ error' = Null) => TryAgain]_vars

\* create requests of the modal that have not settled
PostsInFlight == Copies({m \in BagToSet(net) : m.kind = "POST"}, net)

\* C30: at most one POST /api/sessions of the modal is in flight, and while
\* one is, the form's inputs and its Cancel and Create Session buttons are
\* disabled; they are enabled again once the request has settled.
C30_OneCreateInFlight ==
  /\ PostsInFlight <= 1
  /\ PostsInFlight > 0 => ~FormEnabled
  /\ (PostsInFlight = 0 /\ ModalShown /\ ~modal.loading) => FormEnabled


====
